---- MODULE Spec2Model ----
(***************************************************************************)
(* A model of sigexport/main.py: the transcript encoding written by        *)
(* create_markdown, its parser lines_to_msgs, the paginator create_html,   *)
(* the name sanitizer fix_names and the merge of an old export tree into   *)
(* a new one (merge_with_old, merge_chat, merge_attachments).              *)
(*                                                                         *)
(* Text.  A Python str is modelled as a sequence of characters.  The       *)
(* characters are TLA+ strings; "NL" is the newline, "SP" a space, and a   *)
(* date stamp "D1", "D2", "D3" stands for the bracketed text               *)
(* "[YYYY-MM-DD HH:MM]" that strftime produces and that the header regex   *)
(* of lines_to_msgs matches as its first group; the stamps are ordered     *)
(* chronologically by their number.                                        *)
(***************************************************************************)
EXTENDS Integers, Sequences, FiniteSets, TLC

VARIABLES
    \* merge_with_old
    fs,            \* the file system: root -> name -> entry
    fs0,           \* the file system before the merge (history)
    oldArg,        \* the root the --old argument names
    todo,          \* entries of old.iterdir() not yet visited
    mphase,        \* "merging" | "done" | "crashed" | "idle"
    \* create_html pagination
    pg,
    \* fix_names
    nm,
    \* create_markdown
    rd,
    \* one export run of main: create_markdown over every conversation
    ex,
    \* lines_to_msgs
    ps,
    \* copy_attachments, then create_markdown, over one message
    at

vars == <<fs, fs0, oldArg, todo, mphase, pg, nm, rd, ex, ps, at>>

-----------------------------------------------------------------------------
(* Bounds of the model. *)

\* most lines in one transcript file of the merged conversation
MaxLines == 2

\* most messages of the paginated conversation, and the largest --paginate
MaxPageMsgs == 6
MaxPaginate == 3

\* contacts given to fix_names
MaxContacts == 3

\* most messages rendered into one transcript
MaxMsgs == 2

-----------------------------------------------------------------------------
(* Characters and text. *)

NL == "NL"
SP == "SP"
COLON == ":"

\* "D0" is the stamp of 1970-01-01 00:00
DateStamps == {"D0", "D1", "D2", "D3"}

DateRank(d) == CASE d = "D1" -> 1 [] d = "D2" -> 2 [] d = "D3" -> 3 [] OTHER -> 0

RECURSIVE Concat(_)
\* "".join(seq): the concatenation of a sequence of texts
Concat(ss) == IF ss = <<>> THEN <<>> ELSE Head(ss) \o Concat(Tail(ss))

\* the least index >= from at which text holds character c, or 0
FirstIndex(text, c, from) ==
    LET hits == {i \in from..Len(text) : text[i] = c}
    IN  IF hits = {} THEN 0 ELSE CHOOSE i \in hits : \A j \in hits : i <= j

\* the k-th smallest member of a set of integers
NthOf(S, k) == CHOOSE i \in S : Cardinality({j \in S : j <= i}) = k

\* f.readlines(): the lines of a text file, each ending with its newline; a
\* text after the last newline is a last line without one
ReadLines(text) ==
    LET ends == {i \in 1..Len(text) : text[i] = NL}
                \cup (IF text # <<>> /\ text[Len(text)] # NL THEN {Len(text)} ELSE {})
    IN  [k \in 1..Cardinality(ends) |->
            SubSeq(text, IF k = 1 THEN 1 ELSE NthOf(ends, k - 1) + 1, NthOf(ends, k))]

-----------------------------------------------------------------------------
(* lines_to_msgs: the transcript parser. *)

\* p.match(li) for p = ^(\[date\])(.*?:)(.*\n): the date stamp, then the
\* shortest text up to a colon, then the rest of the line up to its newline
\* ("." does not match a newline).
HeaderMatches(li) ==
    /\ Len(li) >= 3
    /\ li[1] \in DateStamps
    /\ LET c == FirstIndex(li, COLON, 2)
           n == FirstIndex(li, NL, 2)
       IN  c > 0 /\ n > 0 /\ c < n

\* the groups of a pattern whose third group stops before the newline
HeaderGroupsNoNewline(li) ==
    LET c == FirstIndex(li, COLON, 2)
        n == FirstIndex(li, NL, 2)
    IN  <<SubSeq(li, 1, 1), SubSeq(li, 2, c), SubSeq(li, c + 1, n - 1)>>

\* m.groups() as the list [date, sender, body]
HeaderGroups(li) ==
    LET c == FirstIndex(li, COLON, 2)
        n == FirstIndex(li, NL, 2)
    IN  <<SubSeq(li, 1, 1), SubSeq(li, 2, c), SubSeq(li, c + 1, n)>>

RECURSIVE LinesToMsgsFrom(_, _, _)
\* the loop of lines_to_msgs; msgs[-1] of an empty list raises IndexError
LinesToMsgsFrom(lines, i, msgs) ==
    IF i > Len(lines) THEN [ok |-> TRUE, msgs |-> msgs]
    ELSE IF HeaderMatches(lines[i])
         THEN LinesToMsgsFrom(lines, i + 1, Append(msgs, HeaderGroups(lines[i])))
         ELSE IF msgs = <<>>
              THEN [ok |-> FALSE, msgs |-> <<>>]
              ELSE LET k == Len(msgs)
                       last == msgs[k]
                   IN  LinesToMsgsFrom(lines, i + 1,
                           [msgs EXCEPT ![k] = <<last[1], last[2], last[3] \o lines[i]>>])

LinesToMsgs(lines) == LinesToMsgsFrom(lines, 1, <<>>)

-----------------------------------------------------------------------------
(* The file system of the merge. *)

Roots == {"old", "dest"}
ConvNames == {"n1", "n2"}
RootEntries == ConvNames \cup {"style.css"}
MediaNames == {"f1"}

NoEntry == [kind |-> "none", md |-> [exists |-> FALSE, text |-> <<>>],
            media |-> [f \in MediaNames |-> [kind |-> "none", data |-> ""]]]
FileEntry == [NoEntry EXCEPT !.kind = "file"]
NoMediaFile == [kind |-> "none", data |-> ""]

IsDir(fsys, root, name) == fsys[root][name].kind = "dir"

-----------------------------------------------------------------------------
(* merge_attachments, merge_chat, merge_with_old. *)

Path(root, name) == [root |-> root, name |-> name]

\* shutil.copy2(src, dst) raises SameFileError when both name the same file
SameFile(a, b) == a = b

\* merge_attachments(media_new, media_old): every regular file of media_old
\* is copied into media_new with shutil.copy2, which writes the destination
\* whether or not it exists; only a copy onto itself is refused and skipped.
MergeAttachments(fsys, dir_new, dir_old) ==
    LET oldm == fsys[dir_old.root][dir_old.name].media
        newm == fsys[dir_new.root][dir_new.name].media
        merged == [f \in MediaNames |->
                     IF oldm[f].kind = "file" /\ ~SameFile(dir_old, dir_new)
                     THEN oldm[f]
                     ELSE newm[f]]
    IN  [fsys EXCEPT ![dir_new.root][dir_new.name].media = merged]

\* m[0] + m[1] + m[2] for each parsed message
JoinedMsgs(msgs) == [i \in 1..Len(msgs) |-> msgs[i][1] \o msgs[i][2] \o msgs[i][3]]

\* mutant of MergeOrder: the new records are put first
MergeOrderNewFirst(old, new) == new \o old

\* the list old + new that merge_chat deduplicates
MergeOrder(old, new) == old \o new

RECURSIVE DictFromKeysFrom(_, _, _)
DictFromKeysFrom(keys, i, acc) ==
    IF i > Len(keys) THEN acc
    ELSE IF \E k \in 1..Len(acc) : acc[k] = keys[i]
         THEN DictFromKeysFrom(keys, i + 1, acc)
         ELSE DictFromKeysFrom(keys, i + 1, Append(acc, keys[i]))

\* mutant of DictFromKeys: the keys are written as they come, repeats included
KeysWithRepeats(keys) == keys

\* list(dict.fromkeys(keys)): a dict keeps its keys in insertion order and
\* assigning an existing key does not move it
DictFromKeys(keys) == DictFromKeysFrom(keys, 1, <<>>)

\* mutant of MergeChatTarget: the merged transcript is written over the old one
MergeChatTargetOld(path_new, path_old) == path_old

\* the file merge_chat opens with mode "w"
MergeChatTarget(path_new, path_old) == path_new

\* path.open("w") followed by f.writelines(lines)
WriteLines(fsys, path, lines) ==
    [fsys EXCEPT ![path.root][path.name].md = [exists |-> TRUE, text |-> Concat(lines)]]

\* merge_chat(path_new, path_old); status is how the call ends
MergeChat(fsys, path_new, path_old) ==
    LET fo == fsys[path_old.root][path_old.name].md
        fn == fsys[path_new.root][path_new.name].md
    IN  IF ~fo.exists \/ ~fn.exists
        THEN [status |-> "FileNotFoundError", fs |-> fsys]
        ELSE LET old_raw == ReadLines(fo.text)
                 new_raw == ReadLines(fn.text)
             IN  IF old_raw = <<>> \/ new_raw = <<>>
                 THEN [status |-> "return", fs |-> fsys]
                 ELSE LET old == LinesToMsgs(old_raw)
                          new == LinesToMsgs(new_raw)
                      IN  IF ~old.ok \/ ~new.ok
                          THEN [status |-> "IndexError", fs |-> fsys]
                          ELSE [status |-> "ok",
                                fs |-> WriteLines(fsys,
                                          MergeChatTarget(path_new, path_old),
                                          DictFromKeys(JoinedMsgs(
                                              MergeOrder(old.msgs, new.msgs))))]

\* The lines of the transcripts the merge can meet: three header lines as
\* create_markdown renders them ("[date] sender: body  ") and one
\* continuation line (a reaction block).
LineA == <<"D1", SP, "M", COLON, SP, "a", SP, SP, NL>>
LineB == <<"D1", SP, "M", COLON, SP, "b", SP, SP, NL>>
LineC == <<"D2", SP, "M", COLON, SP, "a", SP, SP, NL>>
LineK == <<"(-", "M", COLON, "e", "-)", NL>>
MergeLines == {LineA, LineB, LineC, LineK}

\* transcript files as an export leaves them: empty, or starting with a header
Transcripts ==
    {Concat(ls) : ls \in {s \in UNION {[1..k -> MergeLines] : k \in 0..MaxLines} :
                              s = <<>> \/ HeaderMatches(s[1])}}

MdFiles == {[exists |-> FALSE, text |-> <<>>]}
           \cup {[exists |-> TRUE, text |-> t] : t \in Transcripts}

MediaOf(e) == [f \in MediaNames |-> e]
FileX == [kind |-> "file", data |-> "x"]
FileY == [kind |-> "file", data |-> "y"]
SubDir == [kind |-> "dir", data |-> ""]

\* old/media and new/media of the merged conversation: the same file in
\* both, a file whose content differs, a file only the old tree has, and a
\* subdirectory of old/media beside a file of new/media
MediaPairs == {<<MediaOf(FileX), MediaOf(FileX)>>, <<MediaOf(FileX), MediaOf(FileY)>>,
               <<MediaOf(FileX), MediaOf(NoMediaFile)>>, <<MediaOf(SubDir), MediaOf(FileY)>>}

DirEntry(md, media) == [kind |-> "dir", md |-> md, media |-> media]

\* the second conversation: a fixed directory, present in either tree or both
N2Dir == DirEntry([exists |-> TRUE, text |-> LineC],
                  [f \in MediaNames |-> [kind |-> "file", data |-> "x"]])

EmptyTree == [e \in RootEntries |-> NoEntry]

FsIdle == <<>>
PgIdle == [phase |-> "idle"]
NmIdle == [phase |-> "idle"]
RdIdle == [phase |-> "idle"]
ExIdle == [phase |-> "idle"]
PsIdle == [phase |-> "idle"]
AtIdle == [phase |-> "idle"]

InitMerge ==
    /\ \/ /\ oldArg = "old"
          /\ \E mdo \in MdFiles, mdn \in MdFiles, mp \in MediaPairs,
                n2 \in {<<N2Dir, NoEntry>>, <<N2Dir, N2Dir>>} :
                fs = [r \in Roots |->
                        IF r = "old"
                        THEN [EmptyTree EXCEPT !["n1"] = DirEntry(mdo, mp[1]),
                                               !["n2"] = n2[1],
                                               !["style.css"] = FileEntry]
                        ELSE [EmptyTree EXCEPT !["n1"] = DirEntry(mdn, mp[2]),
                                               !["n2"] = n2[2]]]
       \/ /\ oldArg = "dest"
          /\ \E mdn \in MdFiles, mp \in MediaPairs, n2 \in {NoEntry, N2Dir} :
                fs = [r \in Roots |->
                        IF r = "old" THEN EmptyTree
                        ELSE [EmptyTree EXCEPT !["n1"] = DirEntry(mdn, mp[2]),
                                               !["n2"] = n2]]
    /\ fs0 = fs
    /\ todo = {e \in RootEntries : fs[oldArg][e].kind # "none"}
    /\ mphase = "merging"
    /\ pg = PgIdle /\ nm = NmIdle /\ rd = RdIdle
    /\ ex = ExIdle /\ ps = PsIdle /\ at = AtIdle

\* one turn of the loop of merge_with_old on a directory that dest also has
MergeExisting(name) ==
    /\ mphase = "merging" /\ name \in todo
    /\ IsDir(fs, oldArg, name) /\ IsDir(fs, "dest", name)
    /\ LET dir_old == Path(oldArg, name)
           dir_new == Path("dest", name)
           afterAtt == MergeAttachments(fs, dir_new, dir_old)
           chat == MergeChat(afterAtt, dir_new, dir_old)
       IN  /\ fs' = chat.fs
           /\ mphase' = IF chat.status = "IndexError" THEN "crashed" ELSE "merging"
    /\ todo' = todo \ {name}
    /\ UNCHANGED <<fs0, oldArg, pg, nm, rd, ex, ps, at>>

\* one turn of the loop on a directory dest lacks: shutil.copytree
CopyTree(name) ==
    /\ mphase = "merging" /\ name \in todo
    /\ IsDir(fs, oldArg, name) /\ ~IsDir(fs, "dest", name)
    /\ fs' = [fs EXCEPT !["dest"][name] = fs[oldArg][name]]
    /\ todo' = todo \ {name}
    /\ UNCHANGED <<fs0, oldArg, mphase, pg, nm, rd, ex, ps, at>>

\* an entry of the old tree that is no directory is passed over
SkipNonDir(name) ==
    /\ mphase = "merging" /\ name \in todo
    /\ ~IsDir(fs, oldArg, name)
    /\ todo' = todo \ {name}
    /\ UNCHANGED <<fs, fs0, oldArg, mphase, pg, nm, rd, ex, ps, at>>

MergeReturn ==
    /\ mphase = "merging" /\ todo = {}
    /\ mphase' = "done"
    /\ UNCHANGED <<fs, fs0, oldArg, todo, pg, nm, rd, ex, ps, at>>

NextMerge ==
    \/ \E name \in RootEntries : MergeExisting(name)
    \/ \E name \in RootEntries : CopyTree(name)
    \/ \E name \in RootEntries : SkipNonDir(name)
    \/ MergeReturn

SpecMerge == InitMerge /\ [][NextMerge]_vars

-----------------------------------------------------------------------------
(* Properties of the merge. *)

\* merge_with_old has run merge_attachments and merge_chat on this conversation
Merged(name) ==
    /\ name \in ConvNames /\ name \notin todo /\ mphase # "crashed"
    /\ IsDir(fs0, oldArg, name) /\ IsDir(fs0, "dest", name)

OldMd0(name) == fs0[oldArg][name].md
NewMd0(name) == fs0["dest"][name].md
NewMd(name) == fs["dest"][name].md

\* the records of a transcript, each as its joined date + sender + body text
Recs(text) == JoinedMsgs(LinesToMsgs(ReadLines(text)).msgs)

\* the stamps of the records of a transcript, in order
Dates(text) ==
    LET msgs == LinesToMsgs(ReadLines(text)).msgs
    IN  [i \in 1..Len(msgs) |-> DateRank(msgs[i][1][1])]

BeginsWithHeader(md) ==
    /\ md.exists /\ md.text # <<>>
    /\ HeaderMatches(ReadLines(md.text)[1])

\* the positions of s whose element occurs at no earlier position
FirstPositions(s) == {i \in 1..Len(s) : \A j \in 1..(i - 1) : s[j] # s[i]}

\* s with every element that equals an earlier one removed
WithoutLaterCopies(s) ==
    LET keep == FirstPositions(s)
    IN  [k \in 1..Cardinality(keep) |-> s[NthOf(keep, k)]]

NoRepeats(s) == \A i, j \in 1..Len(s) : s[i] = s[j] => i = j

NonDecreasing(s) == \A i \in 1..(Len(s) - 1) : s[i] <= s[i + 1]

\* C1: when the old and the new transcript each begin with a header line,
\* the transcript merge_chat writes to the new tree is the old records
\* followed by the new records, with each record that is byte-identical to
\* an earlier one removed and all others kept in their relative order.
C1_OrderPreservingUnion ==
    \A name \in ConvNames :
        (Merged(name) /\ BeginsWithHeader(OldMd0(name)) /\ BeginsWithHeader(NewMd0(name)))
        => LET cat == Recs(OldMd0(name).text) \o Recs(NewMd0(name).text)
               out == Recs(NewMd(name).text)
           IN  /\ NewMd(name).exists
               /\ out = WithoutLaterCopies(cat)
               /\ NewMd(name).text = Concat(out)

\* C1 witness: old = [A, B] and new = [B, C] were merged: B was dropped once,
\* and A and B (same date and sender, different bodies) are both kept.
C1_Witness ==
    /\ Merged("n1") /\ oldArg = "old"
    /\ OldMd0("n1") = [exists |-> TRUE, text |-> LineA \o LineB]
    /\ NewMd0("n1") = [exists |-> TRUE, text |-> LineB \o LineC]
    /\ NewMd("n1").text = LineA \o LineB \o LineC

\* the old tree holds what the new tree holds, conversation by conversation
SelfMerge == \A n \in ConvNames : fs0[oldArg][n] = fs0["dest"][n]

MediaFiles(entry) == {f \in MediaNames : entry.media[f].kind # "none"}

\* C2 as stated: merging a tree with itself leaves every transcript
\* identical to the original and adds no attachment file.
C2_IdempotentAsStated ==
    (mphase = "done" /\ SelfMerge)
    => \A n \in ConvNames :
           /\ fs["dest"][n].md = fs0["dest"][n].md
           /\ MediaFiles(fs["dest"][n]) = MediaFiles(fs0["dest"][n])

\* C2 amended: merging a tree with itself leaves every transcript that holds
\* no two byte-identical records identical to the original, rewrites a
\* transcript that holds a record more than once with the later copies
\* removed, and adds no attachment file.
C2_IdempotentWithoutRepeats ==
    (mphase = "done" /\ SelfMerge)
    => \A n \in ConvNames :
           /\ NoRepeats(Recs(fs0["dest"][n].md.text))
                  => fs["dest"][n].md = fs0["dest"][n].md
           /\ Recs(fs["dest"][n].md.text)
                  = WithoutLaterCopies(Recs(fs0["dest"][n].md.text))
           /\ MediaFiles(fs["dest"][n]) = MediaFiles(fs0["dest"][n])

\* C2 witness: a tree with a two-record transcript and an attachment was
\* merged with an equal tree in another directory.
C2_Witness ==
    /\ mphase = "done" /\ SelfMerge /\ oldArg = "old"
    /\ Merged("n1") /\ Merged("n2")
    /\ fs0["dest"]["n1"].md = [exists |-> TRUE, text |-> LineA \o LineC]
    /\ MediaFiles(fs0["dest"]["n1"]) = {"f1"}

\* C3: a file of new/media that has the name of a regular file of old/media
\* keeps its content through merge_attachments.
C3_ExistingFileKept ==
    \A name \in ConvNames :
        Merged(name)
        => \A f \in MediaNames :
               (fs0["dest"][name].media[f].kind = "file"
                    /\ fs0[oldArg][name].media[f].kind = "file")
               => fs["dest"][name].media[f] = fs0["dest"][name].media[f]

\* C4: when the old tree and the destination are different directories, the
\* old tree is the same before, during and after the merge.
C4_OldTreeUntouched ==
    oldArg # "dest" => fs["old"] = fs0["old"]

\* C4 witness: a merge into another directory has rewritten a transcript of
\* the new tree and copied a conversation the new tree lacked.
C4_Witness ==
    /\ mphase = "done" /\ oldArg = "old"
    /\ Merged("n1") /\ NewMd("n1") # NewMd0("n1")
    /\ ~IsDir(fs0, "dest", "n2") /\ IsDir(fs, "dest", "n2")

\* C8: when the old and the new transcript are each in non-decreasing date
\* order, so is the merged transcript.
C8_ChronologicalOrder ==
    \A name \in ConvNames :
        (Merged(name) /\ BeginsWithHeader(OldMd0(name)) /\ BeginsWithHeader(NewMd0(name))
            /\ NonDecreasing(Dates(OldMd0(name).text))
            /\ NonDecreasing(Dates(NewMd0(name).text)))
        => NonDecreasing(Dates(NewMd(name).text))

\* C10: after the merge of a conversation both trees have, every record of
\* a non-empty old transcript is in the new tree's transcript, also when the
\* new tree's transcript file exists and holds no lines.
C10_NoOldMessageLost ==
    \A name \in ConvNames :
        (Merged(name) /\ BeginsWithHeader(OldMd0(name)) /\ NewMd0(name).exists)
        => LET old == Recs(OldMd0(name).text)
               out == Recs(NewMd(name).text)
           IN  \A i \in 1..Len(old) : \E k \in 1..Len(out) : out[k] = old[i]

-----------------------------------------------------------------------------
(* create_html: pagination.  pg.n is len(lines), the number of messages      *)
(* lines_to_msgs returns for the conversation; pg.pages are the page         *)
(* sections written, each with its id and the targets of its PREV and NEXT   *)
(* links (Disabled for plain text instead of a link); pg.msgPage[i + 1] is   *)
(* the id of the section message i is written into.                          *)

\* main: "if paginate <= 0: paginate = int(1e20)"; the model's integers stop
\* short of 10^20, and this value, like 10^20, exceeds every message count
Unpaged == 1000000

Disabled == -1

\* print(..)/main: the page size create_html is called with
MsgsPerPage(paginate) == IF paginate <= 0 THEN Unpaged ELSE paginate

\* int(len(lines) / msgs_per_page)
LastPage(n, msgs_per_page) == n \div msgs_per_page

\* the <nav> of a page section opened with number page_num
NavOf(page_num, last_page) ==
    [id |-> page_num,
     prev |-> IF page_num # 0 THEN page_num - 1 ELSE Disabled,
     next |-> IF page_num # last_page THEN page_num + 1 ELSE Disabled]

InitPage ==
    /\ \E n \in 0..MaxPageMsgs, paginate \in 0..MaxPaginate :
          pg = [phase |-> "start", n |-> n, paginate |-> paginate,
                msgs_per_page |-> 0, last_page |-> 0, i |-> 0, page_num |-> 0,
                pages |-> <<>>, msgPage |-> <<>>]
    /\ fs = FsIdle /\ fs0 = FsIdle /\ oldArg = "old"
    /\ todo = {} /\ mphase = "idle"
    /\ nm = NmIdle /\ rd = RdIdle
    /\ ex = ExIdle /\ ps = PsIdle /\ at = AtIdle

\* main calls create_html, which reads the transcript and sets up the loop
HtmlBegin ==
    /\ pg.phase = "start"
    /\ LET mpp == MsgsPerPage(pg.paginate)
       IN  pg' = [pg EXCEPT !.phase = "loop", !.msgs_per_page = mpp,
                            !.last_page = LastPage(pg.n, mpp),
                            !.i = 0, !.page_num = 0]
    /\ UNCHANGED <<fs, fs0, oldArg, todo, mphase, nm, rd, ex, ps, at>>

\* one turn of "for i, msg in enumerate(lines)"
HtmlMessage ==
    /\ pg.phase = "loop" /\ pg.i < pg.n
    /\ LET opens == (pg.i % pg.msgs_per_page = 0)
           pages == IF opens
                    THEN Append(pg.pages, NavOf(pg.page_num, pg.last_page))
                    ELSE pg.pages
       IN  pg' = [pg EXCEPT !.pages = pages,
                            !.page_num = IF opens THEN pg.page_num + 1 ELSE pg.page_num,
                            !.msgPage = Append(pg.msgPage, pages[Len(pages)].id),
                            !.i = pg.i + 1]
    /\ UNCHANGED <<fs, fs0, oldArg, todo, mphase, nm, rd, ex, ps, at>>

\* the loop is over and the document is yielded
HtmlYield ==
    /\ pg.phase = "loop" /\ pg.i = pg.n
    /\ pg' = [pg EXCEPT !.phase = "done"]
    /\ UNCHANGED <<fs, fs0, oldArg, todo, mphase, nm, rd, ex, ps, at>>

NextPage == HtmlBegin \/ HtmlMessage \/ HtmlYield

SpecPage == InitPage /\ [][NextPage]_vars

CeilDiv(a, b) == (a + b - 1) \div b

\* C5: for n >= 1 messages and a page size s >= 1 the sections written are
\* pg0 .. pg(ceil(n/s) - 1), message i is in section floor(i/s), the first
\* section has a disabled Prev, the last a disabled Next, and every link
\* targets a section that was written.
C5_PaginationConsistent ==
    (pg.phase = "done" /\ pg.n >= 1 /\ pg.paginate >= 1)
    => LET s == pg.paginate
           ids == {pg.pages[k].id : k \in 1..Len(pg.pages)}
       IN  /\ Len(pg.pages) = CeilDiv(pg.n, s)
           /\ \A k \in 1..Len(pg.pages) : pg.pages[k].id = k - 1
           /\ \A i \in 0..(pg.n - 1) : pg.msgPage[i + 1] = i \div s
           /\ pg.pages[1].prev = Disabled
           /\ pg.pages[Len(pg.pages)].next = Disabled
           /\ \A k \in 1..Len(pg.pages) :
                 /\ pg.pages[k].prev # Disabled => pg.pages[k].prev \in ids
                 /\ pg.pages[k].next # Disabled => pg.pages[k].next \in ids

-----------------------------------------------------------------------------
(* fix_names: the name sanitizer.  A contact is [name, number]; an optional  *)
(* text is [isNone, text].                                                   *)

None == [isNone |-> TRUE, text |-> <<>>]
Some(t) == [isNone |-> FALSE, text |-> t]

\* the characters of contact names: letters and digits, a punctuation mark
\* and an emoji whose emoji.demojize alias spells ":J:"
Letters == {"J", "N", "o", "n", "e", "u", "a", "m", "d", "B", "G"}
Digits == <<"0", "1", "2", "3", "4", "5", "6", "7", "8", "9">>
EmojiJ == "emoji-J"

\* x.isalnum()
IsAlnum(c) == c \in Letters \/ \E d \in 1..10 : Digits[d] = c

RECURSIVE Demojize(_)
\* emoji.demojize(text): each emoji becomes its alias between colons
Demojize(t) ==
    IF t = <<>> THEN <<>>
    ELSE (IF Head(t) = EmojiJ THEN <<COLON, "J", COLON>> ELSE <<Head(t)>>)
         \o Demojize(Tail(t))

\* "".join(x for x in emoji.demojize(contact_name) if x.isalnum())
Sanitize(t) == SelectSeq(Demojize(t), IsAlnum)

RECURSIVE Str(_)
\* str(n) for n >= 0
Str(n) == IF n < 10 THEN <<Digits[n + 1]>> ELSE Str(n \div 10) \o <<Digits[(n % 10) + 1]>>

Unnamed == <<"u", "n", "n", "a", "m", "e", "d">>

RECURSIVE DifferentiatingNumber(_, _, _)
\* the while loop: the least number >= k whose suffixed name is not taken
DifferentiatingNumber(fixed, taken, k) ==
    IF (fixed \o Str(k)) \in taken
    THEN DifferentiatingNumber(fixed, taken, k + 1)
    ELSE k

\* the body of the loop of fix_names for one contact: the contact's new
\* name and the names taken after it
FixOne(item, taken) ==
    LET contact_name == IF item.name.isNone THEN item.number ELSE item.name
    IN
    IF item.name.isNone
    THEN [name |-> item.name, taken |-> taken]
    ELSE LET clean == Sanitize(contact_name.text)
             base == IF clean = <<>> THEN Unnamed ELSE clean
             fixed == IF base \in taken
                      THEN base \o Str(DifferentiatingNumber(base, taken, 2))
                      ELSE base
         IN  [name |-> Some(fixed), taken |-> taken \cup {fixed}]

\* copy_attachments and create_markdown: the directory of a conversation,
\* "None" when the contact's name is None or empty
NoneText == <<"N", "o", "n", "e">>
DirName(name) == IF name.isNone \/ name.text = <<>> THEN NoneText ELSE name.text

\* display names as the database gives them
RawNames == {None, Some(<<"J">>), Some(<<"J", "2">>), Some(<<"J", "!">>),
             Some(<<"!">>), Some(<<EmojiJ>>)}

InitNames ==
    /\ \E cs \in [1..MaxContacts -> RawNames] :
          nm = [phase |-> "loop", idx |-> 1,
                contacts |-> [k \in 1..MaxContacts |->
                                [name |-> cs[k], number |-> Some(<<"+", Digits[k + 1]>>)]],
                raw |-> cs, fixed_contact_names |-> {}]
    /\ fs = FsIdle /\ fs0 = FsIdle /\ oldArg = "old"
    /\ todo = {} /\ mphase = "idle"
    /\ pg = PgIdle /\ rd = RdIdle
    /\ ex = ExIdle /\ ps = PsIdle /\ at = AtIdle

\* one turn of "for key, item in contacts.items()"
FixName ==
    /\ nm.phase = "loop" /\ nm.idx <= MaxContacts
    /\ LET r == FixOne(nm.contacts[nm.idx], nm.fixed_contact_names)
       IN  nm' = [nm EXCEPT !.contacts[nm.idx].name = r.name,
                            !.fixed_contact_names = r.taken,
                            !.idx = nm.idx + 1]
    /\ UNCHANGED <<fs, fs0, oldArg, todo, mphase, pg, rd, ex, ps, at>>

FixNamesReturn ==
    /\ nm.phase = "loop" /\ nm.idx > MaxContacts
    /\ nm' = [nm EXCEPT !.phase = "done"]
    /\ UNCHANGED <<fs, fs0, oldArg, todo, mphase, pg, rd, ex, ps, at>>

NextNames == FixName \/ FixNamesReturn

SpecNames == InitNames /\ [][NextNames]_vars

\* C6: after fix_names the directory names of any two distinct contacts
\* differ, contacts without a display name included, and three contacts
\* named alike get the name, the name with 2 and the name with 3.
C6_UniqueDirectoryNames ==
    nm.phase = "done"
    => /\ \A i, j \in 1..MaxContacts :
              i # j => DirName(nm.contacts[i].name) # DirName(nm.contacts[j].name)
       /\ (\A i \in 1..MaxContacts : nm.raw[i] = Some(<<"J">>))
              => \A i \in 2..MaxContacts :
                     nm.contacts[i].name = Some(<<"J">> \o Str(i))

-----------------------------------------------------------------------------
(* copy_attachments (the naming of attachments) and create_markdown.  A raw  *)
(* message is a record of its keys; Absent marks a key the message lacks.    *)

Absent == [has |-> FALSE, isNone |-> FALSE, text |-> <<>>]
Null == [has |-> TRUE, isNone |-> TRUE, text |-> <<>>]
Text(t) == [has |-> TRUE, isNone |-> FALSE, text |-> t]

\* str(x) and f"{x}" of a text or None
PyStr(x) == IF x.isNone THEN NoneText ELSE x.text

\* the contacts after fix_names, in dict order: two people, the second
\* without a display name, and a group
RenderContacts ==
    <<[key |-> "c1", name |-> Some(<<"B">>), number |-> Some(<<"+", "1">>), is_group |-> FALSE],
      [key |-> "c2", name |-> None, number |-> Some(<<"+", "2">>), is_group |-> FALSE],
      [key |-> "g1", name |-> Some(<<"G">>), number |-> None, is_group |-> TRUE]>>

HasContact(key) == \E i \in 1..Len(RenderContacts) : RenderContacts[i].key = key
ContactOf(key) == RenderContacts[CHOOSE i \in 1..Len(RenderContacts) : RenderContacts[i].key = key]

\* timestamp_format(ts): the stamp of a timestamp
TimestampFormat(ts) == CASE ts = 1 -> <<"D1">> [] ts = 2 -> <<"D2">> [] OTHER -> <<"D3">>

\* the date of a message: sent_at is -1 for a missing key (KeyError), 0 for
\* None (TypeError), else a timestamp
MsgDate(msg) == IF msg.kind.sent_at >= 1 THEN TimestampFormat(msg.kind.sent_at) ELSE <<"D0">>

\* "BT" is the backtick character
IsBacktick(c) == c = "BT"
NotBacktick(c) == ~IsBacktick(c)

\* mutant of SoftBreak: one space only
SoftBreakOneSpace == <<SP>>

\* the soft line break appended to the body
SoftBreak == <<SP, SP>>

\* the body before attachments: a missing type or body key raises KeyError,
\* which leaves the body empty
MsgBody(msg) ==
    LET raw == IF msg.kind.type = "absent" THEN <<>>
               ELSE IF msg.kind.type = "call-history"
                    THEN (IF msg.kind.wasIncoming THEN <<"Incoming", SP, "call">>
                                                  ELSE <<"Outgoing", SP, "call">>)
                    ELSE IF ~msg.body.has \/ msg.body.isNone THEN <<>>
                         ELSE msg.body.text
    IN  SelectSeq(raw, NotBacktick) \o SoftBreak

RECURSIVE GroupSender(_, _, _)
\* the loop over contacts.values(): the last contact whose number is the
\* source of the message; reading the source key raises KeyError when the
\* message lacks it, and the sender found so far stays
GroupSender(msg, i, sender) ==
    IF i > Len(RenderContacts) THEN sender
    ELSE LET c == RenderContacts[i]
         IN  IF c.number.isNone THEN GroupSender(msg, i + 1, sender)
             ELSE IF ~msg.kind.source.has THEN sender
                  ELSE IF c.number.text = msg.kind.source.text
                       THEN GroupSender(msg, i + 1, c.name)
                       ELSE GroupSender(msg, i + 1, sender)

\* the sender of a message of conversation key
MsgSender(msg, key) ==
    IF msg.kind.type = "outgoing" THEN <<"Me">>
    ELSE IF ContactOf(key).is_group
         THEN PyStr(GroupSender(msg, 1, Some(<<"No-Sender">>)))
         ELSE IF msg.kind.hasConvId /\ HasContact(key)
              THEN PyStr(ContactOf(key).name)
              ELSE <<"No-Sender">>

RECURSIVE Replace(_, _, _)
\* text.replace(c, by) for a character c
Replace(t, c, by) ==
    IF t = <<>> THEN <<>>
    ELSE (IF Head(t) = c THEN by ELSE <<Head(t)>>) \o Replace(Tail(t), c, by)

\* the greatest index at which text holds c, or 0
LastIndex(t, c) ==
    LET hits == {i \in 1..Len(t) : t[i] = c}
    IN  IF hits = {} THEN 0 ELSE CHOOSE i \in hits : \A j \in hits : j <= i

\* content_type.split("/")[1], or [0] when there is no "/"
ContentExt(ct) ==
    LET s1 == FirstIndex(ct, "/", 1)
    IN  IF s1 = 0 THEN ct
        ELSE LET s2 == FirstIndex(ct, "/", s1 + 1)
             IN  SubSeq(ct, s1 + 1, IF s2 = 0 THEN Len(ct) ELSE s2 - 1)

\* copy_attachments: the name given to attachment number i (from 0) of a
\* message; "T" stands for the message's timestamp in ISO form with its
\* colons replaced
PlannedFileName(i, att) ==
    LET given == IF att.fileName.has THEN PyStr(att.fileName) ELSE NoneText
        file_name == IF FirstIndex(given, ".", 1) = 0
                     THEN given \o <<".">> \o ContentExt(att.contentType)
                     ELSE given
        full == <<"T", "_", Digits[(i \div 10) + 1], Digits[(i % 10) + 1], "_">> \o file_name
    IN  Replace(Replace(Replace(Replace(full, SP, <<"_">>), "/", <<"-">>), ",", <<>>),
                COLON, <<"-">>)

ImageExts == {<<"png">>, <<"jpg">>, <<"jpeg">>, <<"gif">>, <<"tif">>, <<"tiff">>}

\* Path.suffix of a file name, without its dot
SuffixExt(file_name) ==
    LET d == LastIndex(file_name, ".")
    IN  IF d > 1 /\ d < Len(file_name) THEN SubSeq(file_name, d + 1, Len(file_name)) ELSE <<>>

\* the inline reference create_markdown appends for one attachment
AttachmentRef(file_name) ==
    LET path == Replace(<<"media", "/">> \o file_name, SP, <<"%20">>)
    IN  (IF SuffixExt(file_name) \in ImageExts THEN <<"!">> ELSE <<>>)
        \o <<"[">> \o file_name \o <<"]", "(", ".", "/">> \o path \o <<")", SP, SP>>

RECURSIVE AttachmentRefs(_, _)
AttachmentRefs(atts, i) ==
    IF i > Len(atts) THEN <<>>
    ELSE AttachmentRef(PlannedFileName(i - 1, atts[i])) \o AttachmentRefs(atts, i + 1)

RECURSIVE ReactionItems(_, _)
\* the reactions whose fromId is a contact, each as "name: emoji"
ReactionItems(rs, i) ==
    IF i > Len(rs) THEN <<>>
    ELSE (IF HasContact(rs[i].fromId)
          THEN <<PyStr(ContactOf(rs[i].fromId).name) \o <<COLON, SP>> \o rs[i].emoji>>
          ELSE <<>>)
         \o ReactionItems(rs, i + 1)

RECURSIVE JoinWith(_, _)
\* sep.join(items)
JoinWith(items, sep) ==
    IF items = <<>> THEN <<>>
    ELSE IF Len(items) = 1 THEN items[1]
         ELSE items[1] \o sep \o JoinWith(Tail(items), sep)

\* the reaction block, empty without reactions
ReactionBlock(msg) ==
    IF msg.reactions = <<>> THEN <<>>
    ELSE <<NL, "(-", SP>> \o JoinWith(ReactionItems(msg.reactions, 1), <<",", SP>>)
         \o <<SP, "-)">>

\* the quote block, empty unless quotes are enabled and the quote has a text key
QuoteBlock(msg, add_quote) ==
    IF add_quote /\ msg.quote.has
    THEN <<NL, ">", NL, ">", SP>> \o PyStr(msg.quote) \o <<NL, ">", NL>>
    ELSE <<>>

\* mutant of EncodedLine: the colon after the sender is left out
EncodedLineNoColon(date, sender, quote, body) ==
    date \o <<SP>> \o sender \o <<SP>> \o quote \o body

\* f"[{date}] {sender}: {quote}{body}"
EncodedLine(date, sender, quote, body) ==
    date \o <<SP>> \o sender \o <<COLON, SP>> \o quote \o body

\* the text create_markdown yields for one message
RenderMessage(msg, key, add_quote) ==
    LET body1 == MsgBody(msg) \o AttachmentRefs(msg.attachments, 1) \o ReactionBlock(msg)
        body == IF msg.sticker.has /\ msg.sticker.hasEmoji THEN msg.sticker.emoji ELSE body1
    IN  EncodedLine(MsgDate(msg), MsgSender(msg, key), QuoteBlock(msg, add_quote), body)

\* main: print(md_text, file=md_file) on the file opened with mode "a"
PrintAppend(file, md_text) == file \o md_text \o <<NL>>

\* The raw messages of the model.  Who sent a message and when:
KindIn == [sent_at |-> 2, type |-> "incoming", wasIncoming |-> FALSE,
           source |-> Text(<<"+", "1">>), hasConvId |-> TRUE]
KindIn2 == [sent_at |-> 3, type |-> "incoming", wasIncoming |-> FALSE,
            source |-> Text(<<"+", "2">>), hasConvId |-> TRUE]
KindOut == [sent_at |-> 1, type |-> "outgoing", wasIncoming |-> FALSE,
            source |-> Absent, hasConvId |-> TRUE]
KindCall == [sent_at |-> 0, type |-> "call-history", wasIncoming |-> TRUE,
             source |-> Text(<<"+", "1">>), hasConvId |-> TRUE]
KindBare == [sent_at |-> -1, type |-> "absent", wasIncoming |-> FALSE,
             source |-> Absent, hasConvId |-> FALSE]
Kinds == {KindIn, KindIn2, KindOut, KindCall, KindBare}

\* bodies: one line, none, two lines with a backtick, a last line that is a
\* bare date stamp, and a second line that looks like a header
BodyPlain == Text(<<"a">>)
BodyMulti == Text(<<"BT", "a", NL, "b">>)
BodyStampEnd == Text(<<"b", NL, "D1">>)
BodyHeaderLine == Text(<<"x", NL, "D1", SP, "M", COLON, SP, "y">>)
Bodies == {BodyPlain, Absent, Null, BodyMulti, BodyStampEnd, BodyHeaderLine}

\* attachments as the database gives them: an image whose name holds a colon
\* and a space, and a file without a name
TwoAttachments ==
    <<[fileName |-> Text(<<"p", COLON, SP, "q", ".", "jpg">>),
       contentType |-> <<"image", "/", "jpeg">>],
      [fileName |-> Absent, contentType |-> <<"text", "/", "plain">>]>>
AttachmentLists == {<<>>, TwoAttachments}

\* reactions: one of a contact and one of an unknown sender
TwoReactions == <<[fromId |-> "c1", emoji |-> <<"emoji-up">>],
                  [fromId |-> "zz", emoji |-> <<"emoji-up">>]>>
ReactionLists == {<<>>, TwoReactions}

NoSticker == [has |-> FALSE, hasEmoji |-> FALSE, emoji |-> <<>>]
Sticker == [has |-> TRUE, hasEmoji |-> TRUE, emoji |-> <<"emoji-cat">>]
StickerNoEmoji == [has |-> TRUE, hasEmoji |-> FALSE, emoji |-> <<>>]
Stickers == {NoSticker, Sticker, StickerNoEmoji}

QuoteTwoLines == Text(<<"q", NL, "r">>)
QuoteHeaderLine == Text(<<"q", NL, "D2", SP, "M", COLON, "z">>)
Quotes == {Absent, QuoteTwoLines, QuoteHeaderLine}

\* a message without attachments, reactions, sticker and quote
IsPlain(m) ==
    /\ m.attachments = <<>> /\ m.reactions = <<>>
    /\ m.sticker = NoSticker /\ m.quote = Absent

\* Every combination of attachments, reactions, sticker and quote on the two
\* multi-line bodies of an incoming message; every body and every kind of
\* message on its own; a sticker without emoji; a header-like quote.
RawMsgs ==
    {m \in [kind : Kinds, body : Bodies, attachments : AttachmentLists,
            reactions : ReactionLists, sticker : Stickers, quote : Quotes] :
        \/ /\ m.kind = KindIn /\ m.body \in {BodyMulti, BodyStampEnd}
           /\ m.sticker # StickerNoEmoji /\ m.quote # QuoteHeaderLine
        \/ /\ IsPlain(m)
           /\ m.kind = KindIn \/ m.body = BodyPlain
        \/ /\ m.kind = KindIn /\ m.body = BodyPlain
           /\ m.attachments = <<>> /\ m.reactions = <<>>
           /\ \/ m.sticker = StickerNoEmoji /\ m.quote = Absent
              \/ m.sticker = NoSticker /\ m.quote = QuoteHeaderLine}

\* the transcript file may hold text of an earlier run
InitRender ==
    /\ \E key \in {"c1", "g1"}, add_quote \in BOOLEAN, stale \in {<<>>, LineA} :
          rd = [phase |-> "start", key |-> key, add_quote |-> add_quote,
                file |-> stale, rendered |-> <<>>]
    /\ fs = FsIdle /\ fs0 = FsIdle /\ oldArg = "old"
    /\ todo = {} /\ mphase = "idle"
    /\ pg = PgIdle /\ nm = NmIdle
    /\ ex = ExIdle /\ ps = PsIdle /\ at = AtIdle

\* create_markdown opens the transcript with mode "w": the file is emptied
RenderOpen ==
    /\ rd.phase = "start"
    /\ rd' = [rd EXCEPT !.phase = "loop", !.file = <<>>]
    /\ UNCHANGED <<fs, fs0, oldArg, todo, mphase, pg, nm, ex, ps, at>>

\* one message: its attachments are named, its text is yielded, and main
\* appends the text to the transcript
RenderMsg(msg) ==
    /\ rd.phase = "loop" /\ Len(rd.rendered) < MaxMsgs
    /\ LET md_text == RenderMessage(msg, rd.key, rd.add_quote)
       IN  rd' = [rd EXCEPT !.file = PrintAppend(rd.file, md_text),
                            !.rendered = Append(rd.rendered,
                                [msg |-> msg, date |-> MsgDate(msg),
                                 sender |-> MsgSender(msg, rd.key), text |-> md_text])]
    /\ UNCHANGED <<fs, fs0, oldArg, todo, mphase, pg, nm, ex, ps, at>>

NextRender == RenderOpen \/ \E msg \in RawMsgs : RenderMsg(msg)

SpecRender == InitRender /\ [][NextRender]_vars

-----------------------------------------------------------------------------
(* Properties of the rendering. *)

\* no line of an optional text matches the header pattern
NoHeaderLine(opt) ==
    (opt.has /\ ~opt.isNone)
    => LET lines == ReadLines(opt.text \o <<NL>>)
       IN  \A i \in 1..Len(lines) : ~HeaderMatches(lines[i])

EndsWith(t, suffix) ==
    /\ Len(t) >= Len(suffix)
    /\ SubSeq(t, Len(t) - Len(suffix) + 1, Len(t)) = suffix

HasReactions(msg) == msg.reactions # <<>>
HasStickerEmoji(msg) == msg.sticker.has /\ msg.sticker.hasEmoji

\* C9 as stated: every record create_markdown emits ends with two spaces,
\* whatever the message carries.
C9_TwoTrailingSpaces ==
    \A i \in 1..Len(rd.rendered) : EndsWith(rd.rendered[i].text, <<SP, SP>>)

\* C9 amended: the record of a message without reactions and without a
\* sticker emoji ends with two spaces before the newline, whatever body,
\* attachments and quote it carries; the record of a message with reactions
\* ends with the closing of the reaction block, and a sticker with an emoji
\* ends the record with that emoji.
C9_TwoTrailingSpacesUnlessBlock ==
    /\ rd.phase = "loop" =>
           rd.file = Concat([i \in 1..Len(rd.rendered) |-> rd.rendered[i].text \o <<NL>>])
    /\ \A i \in 1..Len(rd.rendered) :
           LET msg == rd.rendered[i].msg
               text == rd.rendered[i].text
           IN  /\ (~HasReactions(msg) /\ ~HasStickerEmoji(msg)) => EndsWith(text, <<SP, SP>>)
               /\ (HasReactions(msg) /\ ~HasStickerEmoji(msg)) => EndsWith(text, <<SP, "-)">>)
               /\ HasStickerEmoji(msg) => EndsWith(text, msg.sticker.emoji)

\* C9 witness: records of a message with only a body, of a message with
\* attachments and a quote, and of a message whose body key is missing.
C9_Witness ==
    /\ rd.phase = "loop" /\ rd.add_quote /\ Len(rd.rendered) = 2
    /\ rd.rendered[1].msg.attachments # <<>>
    /\ rd.rendered[1].msg.quote = QuoteTwoLines
    /\ ~HasReactions(rd.rendered[1].msg) /\ ~HasStickerEmoji(rd.rendered[1].msg)
    /\ IsPlain(rd.rendered[2].msg) /\ rd.rendered[2].msg.body = Absent
    /\ EndsWith(rd.file, <<SP, SP, NL>>)


-----------------------------------------------------------------------------
(* One export run: main renames the contacts with fix_names, then           *)
(* create_markdown walks the conversations in order; for each it opens      *)
(* dest/name/index.md with mode w and yields one text per message, which    *)
(* main appends to the path it was yielded with.  A record of a transcript  *)
(* is identified by the conversation and the position of its message.       *)

\* conversations of the run
MaxConvs == 3
\* most messages of one conversation
MaxConvMsgs == 2

RECURSIVE FixNamesFrom(_, _, _)
\* fix_names over the contacts in order: the names after the loop
FixNamesFrom(contacts, i, taken) ==
    IF i > Len(contacts) THEN <<>>
    ELSE LET r == FixOne(contacts[i], taken)
         IN  <<r.name>> \o FixNamesFrom(contacts, i + 1, r.taken)

FixNames(contacts) == FixNamesFrom(contacts, 1, {})

\* display names of the contacts of the conversations
ConvRawNames == {None, Some(<<"J">>)}

\* md_path of conversation key
MdPath(key) == DirName(ex.names[key])

InitExport ==
    /\ \E raw \in [1..MaxConvs -> ConvRawNames], cnt \in [1..MaxConvs -> 0..MaxConvMsgs] :
          LET names == FixNames([k \in 1..MaxConvs |->
                           [name |-> raw[k], number |-> Some(<<"+", Digits[k + 1]>>)]])
              paths == {DirName(names[k]) : k \in 1..MaxConvs}
          IN  ex = [phase |-> "loop", names |-> names, count |-> cnt,
                    key |-> 0, j |-> 1,
                    files |-> [d \in paths |-> <<>>],
                    truncations |-> [d \in paths |-> 0],
                    appended |-> [d \in paths |-> 0]]
    /\ fs = FsIdle /\ fs0 = FsIdle /\ oldArg = "old"
    /\ todo = {} /\ mphase = "idle"
    /\ pg = PgIdle /\ nm = NmIdle /\ rd = RdIdle
    /\ ps = PsIdle /\ at = AtIdle

\* the next turn of "for key, messages in convos.items()": md_path.open("w")
\* leaves the transcript of the conversation empty
MdOpen ==
    /\ ex.phase = "loop"
    /\ IF ex.key = 0 THEN TRUE ELSE ex.j > ex.count[ex.key]
    /\ ex.key < MaxConvs
    /\ LET key == ex.key + 1
           d == DirName(ex.names[key])
       IN  ex' = [ex EXCEPT !.key = key, !.j = 1,
                            !.files[d] = <<>>,
                            !.truncations[d] = @ + 1]
    /\ UNCHANGED <<fs, fs0, oldArg, todo, mphase, pg, nm, rd, ps, at>>

\* one turn of "for msg in messages": the yield, and main's append of the
\* yielded text to md_path
MdYield ==
    /\ ex.phase = "loop"
    /\ ex.key >= 1 /\ ex.j <= ex.count[ex.key]
    /\ LET d == MdPath(ex.key)
       IN  ex' = [ex EXCEPT !.files[d] = Append(@, <<ex.key, ex.j>>),
                            !.appended[d] = @ + 1,
                            !.j = ex.j + 1]
    /\ UNCHANGED <<fs, fs0, oldArg, todo, mphase, pg, nm, rd, ps, at>>

\* the generator is exhausted
MdReturn ==
    /\ ex.phase = "loop"
    /\ ex.key = MaxConvs /\ ex.j > ex.count[ex.key]
    /\ ex' = [ex EXCEPT !.phase = "done"]
    /\ UNCHANGED <<fs, fs0, oldArg, todo, mphase, pg, nm, rd, ps, at>>

NextExport == MdOpen \/ MdYield \/ MdReturn

SpecExport == InitExport /\ [][NextExport]_vars

\* the records of conversation key that a transcript holds
RecordsOf(file, key) == {i \in 1..Len(file) : file[i][1] = key}

\* C11: in one export run every transcript file is truncated exactly once,
\* no truncation follows an append to the same file, and at the end of the
\* run every transcript holds one record for every message of every
\* conversation rendered into it, whatever the contact names are (several
\* conversations without a name included).
C11_TruncatedOnceNothingErased ==
    /\ \A d \in DOMAIN ex.files : ex.appended[d] > 0 => ex.truncations[d] = 1
    /\ \A d \in DOMAIN ex.files : Len(ex.files[d]) = ex.appended[d]
    /\ ex.phase = "done"
       => /\ \A d \in DOMAIN ex.files : ex.truncations[d] = 1
          /\ \A key \in 1..MaxConvs :
                Cardinality(RecordsOf(ex.files[MdPath(key)], key)) = ex.count[key]


-----------------------------------------------------------------------------
(* lines_to_msgs as a loop over its argument.                               *)

\* most lines given to lines_to_msgs
MaxParseLines == 3

\* header lines: a sender and a body, and an empty sender before two colons
ParseHeader == <<"D1", SP, "a", COLON, SP, "x", NL>>
ParseHeaderTwoColons == <<"D2", COLON, COLON, NL>>
\* lines that are no header: plain text, an empty line, a colon, a stamp
\* without a colon, a stamp that is not at the start of the line
ParsePlain == <<"x", NL>>
ParseEmpty == <<NL>>
ParseColon == <<COLON, NL>>
ParseStampNoColon == <<"D1", "x", NL>>
ParseStampInside == <<"x", "D1", COLON, NL>>
\* strings that are not one newline-terminated line: a newline inside, and
\* no newline at the end
ParseTwoInOne == <<"D1", COLON, NL, "x", NL>>
ParseNoNewline == <<"D1", COLON, "x">>

ParseLineSet == {ParseHeader, ParseHeaderTwoColons, ParsePlain, ParseEmpty,
                 ParseColon, ParseStampNoColon, ParseStampInside,
                 ParseTwoInOne, ParseNoNewline}

InitParse ==
    /\ \E n \in 0..MaxParseLines : \E lines \in [1..n -> ParseLineSet] :
          ps = [phase |-> "loop", lines |-> lines, i |-> 1, msgs |-> <<>>]
    /\ fs = FsIdle /\ fs0 = FsIdle /\ oldArg = "old"
    /\ todo = {} /\ mphase = "idle"
    /\ pg = PgIdle /\ nm = NmIdle /\ rd = RdIdle
    /\ ex = ExIdle /\ at = AtIdle

\* a turn of "for li in lines" with a match: msgs.append(list(m.groups()))
ParseHeaderLine ==
    /\ ps.phase = "loop" /\ ps.i <= Len(ps.lines)
    /\ HeaderMatches(ps.lines[ps.i])
    /\ ps' = [ps EXCEPT !.msgs = Append(@, HeaderGroups(ps.lines[ps.i])),
                        !.i = ps.i + 1]
    /\ UNCHANGED <<fs, fs0, oldArg, todo, mphase, pg, nm, rd, ex, at>>

\* a turn without a match: msgs[-1][-1] += li, IndexError on an empty list
ParseContinuationLine ==
    /\ ps.phase = "loop" /\ ps.i <= Len(ps.lines)
    /\ ~HeaderMatches(ps.lines[ps.i])
    /\ ps' = IF ps.msgs = <<>>
             THEN [ps EXCEPT !.phase = "IndexError"]
             ELSE [ps EXCEPT !.msgs[Len(ps.msgs)][3] = @ \o ps.lines[ps.i],
                             !.i = ps.i + 1]
    /\ UNCHANGED <<fs, fs0, oldArg, todo, mphase, pg, nm, rd, ex, at>>

\* return msgs
ParseReturn ==
    /\ ps.phase = "loop" /\ ps.i > Len(ps.lines)
    /\ ps' = [ps EXCEPT !.phase = "done"]
    /\ UNCHANGED <<fs, fs0, oldArg, todo, mphase, pg, nm, rd, ex, at>>

NextParse == ParseHeaderLine \/ ParseContinuationLine \/ ParseReturn

SpecParse == InitParse /\ [][NextParse]_vars

\* a string that is one line: its only newline is its last character
NewlineTerminated(li) == li # <<>> /\ FirstIndex(li, NL, 1) = Len(li)

\* the lines of the argument that start a record, in order
HeaderLines(lines) == {i \in 1..Len(lines) : HeaderMatches(lines[i])}

\* the lines a record spans: from its header line to the line before the
\* next header line
RecordSpan(lines, k) ==
    LET hs == HeaderLines(lines)
        first == NthOf(hs, k)
        last == IF k < Cardinality(hs) THEN NthOf(hs, k + 1) - 1 ELSE Len(lines)
    IN  SubSeq(lines, first, last)

\* C12: for newline-terminated lines whose first line matches the header
\* pattern, lines_to_msgs returns one record per header-matching line; each
\* record is the date stamp, the sender up to the first colon and a body
\* that holds the rest of the header line followed verbatim by every line
\* up to the next header line; and date + sender + body over all records in
\* order is the concatenation of the input lines.
C12_ParserLossless ==
    (/\ ps.phase = "done"
     /\ ps.lines # <<>>
     /\ HeaderMatches(ps.lines[1])
     /\ \A i \in 1..Len(ps.lines) : NewlineTerminated(ps.lines[i]))
    => /\ Len(ps.msgs) = Cardinality(HeaderLines(ps.lines))
       /\ \A k \in 1..Len(ps.msgs) :
             LET m == ps.msgs[k]
                 span == RecordSpan(ps.lines, k)
             IN  /\ m[1] = <<span[1][1]>> /\ m[1][1] \in DateStamps
                 /\ FirstIndex(m[2], COLON, 1) = Len(m[2])
                 /\ m[1] \o m[2] \o m[3] = Concat(span)
       /\ Concat([k \in 1..Len(ps.msgs) |->
                    ps.msgs[k][1] \o ps.msgs[k][2] \o ps.msgs[k][3]])
          = Concat(ps.lines)

\* two records, the first continued by a line that holds a date stamp
C12_Witness ==
    /\ ps.phase = "done"
    /\ ps.lines = <<ParseHeader, ParseStampInside, ParseHeaderTwoColons>>
    /\ Len(ps.msgs) = 2
    /\ ps.msgs[1][3] = <<SP, "x", NL>> \o ParseStampInside
    /\ ps.msgs[2] = <<<<"D2">>, <<COLON>>, <<COLON, NL>>>>


-----------------------------------------------------------------------------
(* copy_attachments, then create_markdown, over the attachments of one      *)
(* message.  An attachment is a record of its keys path, contentType and    *)
(* fileName, each a text, None or Absent; copy_attachments assigns          *)
(* att["fileName"] in place and create_markdown reads it.                   *)

\* most attachments of the message
MaxAtts == 2

AttPaths == {Absent, Text(<<"p">>)}
AttContentTypes == {Absent, Text(<<"image", "/", "png">>)}
AttFileNames == {Absent, Null, Text(<<"f", ".", "png">>), Text(<<"f">>)}
RawAttachments == [path : AttPaths, contentType : AttContentTypes, fileName : AttFileNames]

InitAttach ==
    /\ \E n \in 0..MaxAtts : \E atts \in [1..n -> RawAttachments] :
          at = [phase |-> "copy", raw |-> atts, attachments |-> atts, i |-> 1,
                pairs |-> <<>>, broken |-> {}, body |-> <<>>]
    /\ fs = FsIdle /\ fs0 = FsIdle /\ oldArg = "old"
    /\ todo = {} /\ mphase = "idle"
    /\ pg = PgIdle /\ nm = NmIdle /\ rd = RdIdle
    /\ ex = ExIdle /\ ps = PsIdle

\* str(att["fileName"]) if "fileName" in att else "None"
GivenFileName(att) == IF att.fileName.has THEN PyStr(att.fileName) ELSE NoneText

\* the name needs an extension: att["contentType"] is read
NeedsContentType(att) == FirstIndex(GivenFileName(att), ".", 1) = 0

\* one turn of "for i, att in enumerate(attachments)" that ends with the
\* yield of the pair (source path, destination name)
CopyYield ==
    /\ at.phase = "copy" /\ at.i <= Len(at.attachments)
    /\ LET att == at.attachments[at.i]
           name == PlannedFileName(at.i - 1, [fileName |-> att.fileName,
                                              contentType |-> att.contentType.text])
       IN  /\ NeedsContentType(att) => att.contentType.has
           /\ att.path.has
           /\ at' = [at EXCEPT !.attachments[at.i].fileName = Text(name),
                               !.pairs = Append(@, [att |-> at.i,
                                                    src |-> PyStr(att.path),
                                                    dst |-> name]),
                               !.i = at.i + 1]
    /\ UNCHANGED <<fs, fs0, oldArg, todo, mphase, pg, nm, rd, ex, ps>>

\* one turn that ends in "except KeyError": att["contentType"] is missing
\* before att["fileName"] is assigned, or att["path"] is missing after it
CopyBroken ==
    /\ at.phase = "copy" /\ at.i <= Len(at.attachments)
    /\ LET att == at.attachments[at.i]
           name == PlannedFileName(at.i - 1, [fileName |-> att.fileName,
                                              contentType |-> att.contentType.text])
       IN  IF NeedsContentType(att) /\ ~att.contentType.has
           THEN at' = [at EXCEPT !.broken = @ \cup {at.i}, !.i = at.i + 1]
           ELSE /\ ~att.path.has
                /\ at' = [at EXCEPT !.attachments[at.i].fileName = Text(name),
                                    !.broken = @ \cup {at.i},
                                    !.i = at.i + 1]
    /\ UNCHANGED <<fs, fs0, oldArg, todo, mphase, pg, nm, rd, ex, ps>>

\* the loop of copy_attachments is over
CopyReturn ==
    /\ at.phase = "copy" /\ at.i > Len(at.attachments)
    /\ at' = [at EXCEPT !.phase = "markdown"]
    /\ UNCHANGED <<fs, fs0, oldArg, todo, mphase, pg, nm, rd, ex, ps>>

\* the body of a message whose text is "a", before its attachments
PlainBody == <<"a">> \o SoftBreak

RECURSIVE MarkdownRefs(_, _, _)
\* "for att in msg['attachments']": att["fileName"] raises KeyError when
\* the key is missing, and Path("media") / None raises TypeError
MarkdownRefs(atts, i, body) ==
    IF i > Len(atts) THEN [phase |-> "done", body |-> body]
    ELSE IF ~atts[i].fileName.has THEN [phase |-> "KeyError", body |-> body]
    ELSE IF atts[i].fileName.isNone THEN [phase |-> "TypeError", body |-> body]
    ELSE MarkdownRefs(atts, i + 1, body \o AttachmentRef(atts[i].fileName.text))

\* create_markdown for the message: the body, then the reference of every
\* attachment; an exception leaves create_markdown and ends main
MarkdownMessage ==
    /\ at.phase = "markdown"
    /\ LET r == MarkdownRefs(at.attachments, 1, PlainBody)
       IN  at' = [at EXCEPT !.phase = r.phase, !.body = r.body]
    /\ UNCHANGED <<fs, fs0, oldArg, todo, mphase, pg, nm, rd, ex, ps>>

NextAttach == CopyYield \/ CopyBroken \/ CopyReturn \/ MarkdownMessage

SpecAttach == InitAttach /\ [][NextAttach]_vars

\* the attachment lacks one of its required keys
LacksKey(att) == ~att.path.has \/ ~att.contentType.has \/ ~att.fileName.has

\* C13: an attachment that lacks the key path, contentType or fileName is
\* skipped without ending the run: copy_attachments yields no pair for it,
\* create_markdown completes for the message, and a message all of whose
\* attachments were skipped is rendered as plain text with no attachment
\* reference.
C13_BrokenAttachmentSkipped ==
    /\ at.phase \notin {"KeyError", "TypeError"}
    /\ at.phase \in {"markdown", "done"}
       => \A i \in 1..Len(at.raw) :
             LacksKey(at.raw[i]) => \A k \in 1..Len(at.pairs) : at.pairs[k].att # i
    /\ (at.phase = "done" /\ at.pairs = <<>>) => at.body = PlainBody

====
